---- MODULE Spec2Model ----
(***************************************************************************)
(* Model of the cursor crawl of src/eda/eda2.py: make_api_request (the     *)
(* bounded retry loop around one HTTP GET), fetch_all_works_data (the      *)
(* cursor-paginated crawl loop), process_and_structure_data (the record    *)
(* normalizer) and main (exit status and output file).                     *)
(*                                                                         *)
(* The remote API is the environment: every GET is answered by one of      *)
(* HTTP 200 with a JSON body, HTTP 429, HTTP 403, another HTTP error, or   *)
(* a network error, chosen nondeterministically.                           *)
(* Sleep durations are recorded in milliseconds (time.sleep(0.5) = 500).   *)
(***************************************************************************)
EXTENDS Integers, Sequences, FiniteSets, TLC

\* ---------------------------------------------------------------- bounds
\* The server hands out a continuation token on at most MaxPages - 1 pages.
MaxPages == 3
\* Largest number of works in the 'results' of one page.
MaxResults == 1
\* Largest number of records handed to process_and_structure_data on its own.
MaxWorks == 2

\* ------------------------------------------------------- program constants
MAX_RETRIES == 3
RESULTS_PER_PAGE == 200
EMAIL == "nakyeongkim@bu.edu"
BASE_URL == "https://api.openalex.org/works"
SEARCH_TERM == ""
OUTPUT_FILENAME == "all_works_2020_2025.csv"
YEARS_FILTER == "2020-2025"
SELECT_FIELDS == "title,publication_date,cited_by_count,concepts,authorships"

\* --------------------------------------------------------- Python values
\* Values that may be None are tagged, so that None, "" and a list compare.
PyNone == [t |-> "None"]
PyStr(s) == [t |-> "str", v |-> s]
PyList(s) == [t |-> "list", v |-> s]
PyDict(d) == [t |-> "dict", v |-> d]

\* Python truth value of a tagged value (while next_cursor: / if raw_works_data:)
Truthy(x) ==
    CASE x.t = "None" -> FALSE
      [] x.t = "str"  -> x.v # ""
      [] x.t = "list" -> Len(x.v) > 0
      [] x.t = "dict" -> DOMAIN x.v # {}

\* dict.get(key, default) on a dict modelled as a function over its keys
Get(d, k, default) == IF k \in DOMAIN d THEN d[k] ELSE default

EmptyDict == << >>

RECURSIVE Pow2(_)
Pow2(n) == IF n = 0 THEN 1 ELSE 2 * Pow2(n - 1)

\* ------------------------------------------------------------ the server
\* Status codes the server may answer with; 500 stands for every HTTP
\* error other than 429 and 403.
Statuses == {200, 403, 429, 500}

\* response.raise_for_status(): raises HTTPError for 4xx and 5xx
RaisesHTTPError(status) == status >= 400 /\ status < 600

Counts == {7}

\* The continuation token the server hands out with page p, naming page p + 1
ServerToken(p) == "tok" \o ToString(p)

Url == <<"h","t","t","p","s",":","/","/","o","p","e","n","a","l","e","x",
         ".","o","r","g","/","C","1","2","3","4","5">>

\* The i-th work of the server's page p.  Works of different pages and
\* positions differ in their title; optional nested data comes and goes.
ServerWork(p, i) ==
    ("title" :> ("w" \o ToString(p) \o "_" \o ToString(i)))
    @@ (IF p % 3 = 2 THEN EmptyDict
        ELSE "publication_date" :> (IF p % 3 = 1 THEN "2021-03-01" ELSE "2024-07-15"))
    @@ (IF i % 2 = 0 THEN EmptyDict ELSE "cited_by_count" :> (p + i))
    @@ ("concepts" :> (IF p % 2 = 0 THEN << >>
                       ELSE << [id |-> Url, display_name |-> "Biology"] >>))
    @@ ("authorships" :> (IF i % 2 = 0 THEN << >>
                          ELSE << [author |-> [display_name |-> "Kim"],
                                   institutions |-> << [display_name |-> "BU"] >>] >>))

ServerResults(p, n) == [i \in 1..n |-> ServerWork(p, i)]

\* The 'meta' objects of page p: 'count' and 'next_cursor' each present or
\* not; next_cursor is null, "" or the page's token.  A token is only handed
\* out while more pages exist.
NextCursorValues(p) ==
    {PyNone, PyStr("")} \cup (IF p < MaxPages THEN {PyStr(ServerToken(p))} ELSE {})

Metas(p) ==
    LET cnt == {EmptyDict} \cup {"count" :> c : c \in Counts}
        nxt == {EmptyDict} \cup {"next_cursor" :> v : v \in NextCursorValues(p)}
    IN  {c @@ n : c \in cnt, n \in nxt}

\* The JSON bodies the server may send for page p: 'results' and 'meta'
\* each present or not.
Bodies(p) ==
    LET res == {EmptyDict} \cup {"results" :> ServerResults(p, n) : n \in 0..MaxResults}
        met == {EmptyDict} \cup {"meta" :> m : m \in Metas(p)}
    IN  {r @@ m : r \in res, m \in met}

\* ---------------------------------------------------------------- state
VARIABLES
    pc,                    \* position of the single thread of control
    params,                \* fetch_all_works_data: request parameters
    all_works,             \* fetch_all_works_data: accumulator
    next_cursor,           \* fetch_all_works_data: current continuation token
    page_count,            \* fetch_all_works_data: pages requested so far
    total_works_expected,  \* fetch_all_works_data: meta.count of page 1
    data,                  \* value returned by the last make_api_request
    attempt,               \* make_api_request: loop variable
    response,              \* make_api_request: the last Response object
    rangeIt,               \* make_api_request: position of range(MAX_RETRIES)
    outstanding,           \* HTTP requests sent and not yet answered
    request,               \* parameters of the last GET as sent
    raw_works_data,        \* main: value returned by fetch_all_works_data
    exitStatus,            \* process exit status (-1 while running)
    outputFile,            \* content of OUTPUT_FILENAME, PyNone if not written
    callLog,               \* history: events of the make_api_request in progress
    crawlLog,              \* history: events of the crawl loop
    served,                \* history: pages delivered by the server
    raw_works_arg,         \* process_and_structure_data: its argument raw_works
    final_data,            \* process_and_structure_data: its result, PyNone before
    absorbedEarlier,       \* history: a page fetched earlier needed a retry
    csv,                   \* eda3: the input file of each configured year
    year,                  \* eda3: position of the loop over years
    all_counts,            \* eda3: the per-year frames read so far
    final_df,              \* eda3: the merged frame, PyNone before the merge
    topic_yearly_counts    \* eda3: content of OUTPUT_FILE, PyNone if not written

vars == <<pc, params, all_works, next_cursor, page_count, total_works_expected,
          data, attempt, response, rangeIt, outstanding, request, raw_works_data,
          exitStatus, outputFile, callLog, crawlLog, served,
          raw_works_arg, final_data, absorbedEarlier,
          csv, year, all_counts, final_df, topic_yearly_counts>>

crawlVars == <<params, all_works, next_cursor, page_count, total_works_expected>>
mainVars == <<raw_works_data, exitStatus, outputFile>>
normVars == <<raw_works_arg, final_data>>
mergeVars == <<csv, year, all_counts, final_df, topic_yearly_counts>>
sideVars == <<normVars, absorbedEarlier, mergeVars>>

Ev(e, n) == [ev |-> e, n |-> n]

\* a requests.Response: its status_code and the value of its json()
Response(status, body) == [t |-> "Response", status_code |-> status, json |-> body]

Running == -1

Init ==
    /\ pc = "main"
    /\ params = EmptyDict
    /\ all_works = << >>
    /\ next_cursor = PyNone
    /\ page_count = 0
    /\ total_works_expected = 0
    /\ data = PyNone
    /\ attempt = 0
    /\ response = PyNone
    /\ rangeIt = 0
    /\ outstanding = 0
    /\ request = EmptyDict
    /\ raw_works_data = PyNone
    /\ exitStatus = Running
    /\ outputFile = PyNone
    /\ callLog = << >>
    /\ crawlLog = << >>
    /\ served = << >>
    /\ raw_works_arg = << >>
    /\ final_data = PyNone
    /\ absorbedEarlier = FALSE
    /\ csv = << >>
    /\ year = 1
    /\ all_counts = << >>
    /\ final_df = PyNone
    /\ topic_yearly_counts = PyNone

\* ------------------------------------------- process_and_structure_data
\* str.split(sep) on a string held as a sequence of characters
RECURSIVE Split(_, _)
Split(s, sep) ==
    IF \A k \in 1..Len(s) : s[k] # sep
    THEN << s >>
    ELSE LET k == CHOOSE j \in 1..Len(s) :
                      s[j] = sep /\ \A m \in 1..(j - 1) : s[m] # sep
         IN  << SubSeq(s, 1, k - 1) >> \o Split(SubSeq(s, k + 1, Len(s)), sep)

NA == <<"N","/","A">>

\* top_concept.get('id', 'N/A').split('/')[-1]
StripId(id) == LET parts == Split(id, "/") IN parts[Len(parts)]

\* One row of final_data, for one raw work (lines 121-144)
StructureWork(work) ==
    LET concepts == Get(work, "concepts", << >>)
        top_concept == IF Len(concepts) > 0 THEN concepts[1]
                       ELSE [display_name |-> "N/A", id |-> NA]
        authorships == Get(work, "authorships", << >>)
        first_authorship == IF Len(authorships) > 0 THEN authorships[1] ELSE EmptyDict
        author_name == Get(Get(first_authorship, "author", EmptyDict), "display_name", "N/A")
        institutions == Get(first_authorship, "institutions", << >>)
        institution_name == IF Len(institutions) > 0
                            THEN Get(institutions[1], "display_name", "N/A")
                            ELSE "N/A"
    IN  [Concept_ID |-> StripId(Get(top_concept, "id", NA)),
         Concept_Name |-> Get(top_concept, "display_name", "N/A"),
         Work_Title |-> Get(work, "title", "N/A"),
         Primary_Author |-> author_name,
         Affiliation_Institution |-> institution_name,
         Citation_Count |-> Get(work, "cited_by_count", 0),
         Publication_Date |-> Get(work, "publication_date", "N/A")]

process_and_structure_data(raw_works) ==
    [k \in 1..Len(raw_works) |-> StructureWork(raw_works[k])]

\* ------------------------------------------------------------------ main
\* pd.to_datetime(..., errors='coerce'): a date string becomes a timestamp
\* (held as the number yyyymmdd), anything else becomes NaT.
NaT == -1
ToDatetime(s) ==
    CASE s = "2021-03-01" -> 20210301
      [] s = "2024-07-15" -> 20240715
      [] OTHER -> NaT

\* Row a sorts strictly before row b: Publication_Date descending with NaT
\* last, then Citation_Count descending.
SortsBefore(a, b) ==
    \/ a.Publication_Date # NaT /\ b.Publication_Date = NaT
    \/ a.Publication_Date # NaT /\ b.Publication_Date # NaT
         /\ a.Publication_Date > b.Publication_Date
    \/ a.Publication_Date = b.Publication_Date
         /\ a.Citation_Count > b.Citation_Count

\* Stable insertion of row x into the sorted sequence s
InsertRow(s, x) ==
    LET pos == IF \E k \in 1..Len(s) : SortsBefore(x, s[k])
               THEN CHOOSE k \in 1..Len(s) :
                        SortsBefore(x, s[k]) /\ \A m \in 1..(k - 1) : ~SortsBefore(x, s[m])
               ELSE Len(s) + 1
    IN  SubSeq(s, 1, pos - 1) \o << x >> \o SubSeq(s, pos, Len(s))

RECURSIVE SortValues(_)
SortValues(rows) ==
    IF rows = << >> THEN << >>
    ELSE InsertRow(SortValues(SubSeq(rows, 1, Len(rows) - 1)), rows[Len(rows)])

\* The table main writes: structured rows, dates parsed, sorted (163-170)
ResultTable(raw_works) ==
    LET processed_data == process_and_structure_data(raw_works)
        df == [k \in 1..Len(processed_data) |->
                 [processed_data[k] EXCEPT
                    !.Publication_Date = ToDatetime(processed_data[k].Publication_Date)]]
    IN  SortValues(df)

\* wait_time = 2 * attempt instead of 2 ** attempt
BackoffMs_Linear(a) == 2 * a * 1000

\* ------------------------------------------------------ make_api_request
\* wait_time = 2 ** attempt (seconds), recorded in milliseconds
BackoffMs(a) == Pow2(a) * 1000
HttpRetryMs == 1000
NetRetryMs == 2000
PoliteMs == 500

\* attempt < MAX_RETRIES - 2: gives up one attempt early
AttemptsRemain_OffByOne(a) == a < MAX_RETRIES - 2

\* attempt < MAX_RETRIES - 1
AttemptsRemain(a) == a < MAX_RETRIES - 1

\* range(MAX_RETRIES + 1): one attempt too many
ForNext_OneMore ==
    /\ pc = "for"
    /\ rangeIt < MAX_RETRIES + 1
    /\ attempt' = rangeIt
    /\ rangeIt' = rangeIt + 1
    /\ pc' = "get"
    /\ UNCHANGED <<sideVars, crawlVars, mainVars, data, response, outstanding, request,
                   callLog, crawlLog, served>>

\* for attempt in range(MAX_RETRIES): the next value of the range
ForNext ==
    /\ pc = "for"
    /\ rangeIt < MAX_RETRIES
    /\ attempt' = rangeIt
    /\ rangeIt' = rangeIt + 1
    /\ pc' = "get"
    /\ UNCHANGED <<sideVars, crawlVars, mainVars, data, response, outstanding, request,
                   callLog, crawlLog, served>>

\* the range is exhausted: the loop ends and line 53 returns None
ForExhausted ==
    /\ pc = "for"
    /\ rangeIt >= MAX_RETRIES
    /\ data' = PyNone
    /\ pc' = "call_ret"
    /\ UNCHANGED <<sideVars, crawlVars, mainVars, attempt, response, rangeIt, outstanding,
                   request, callLog, crawlLog, served>>

\* requests.get(url, params=params): the request goes out
RequestsGet ==
    /\ pc = "get"
    /\ outstanding' = outstanding + 1
    /\ request' = params
    /\ callLog' = Append(callLog, Ev("get", attempt))
    /\ pc' = "wait"
    /\ UNCHANGED <<sideVars, crawlVars, mainVars, data, attempt, response, rangeIt,
                   crawlLog, served>>

\* HTTP 200: raise_for_status passes, response.json() is returned (27-29)
RespondOk ==
    /\ pc = "wait"
    /\ \E body \in Bodies(page_count) :
         /\ response' = Response(200, body)
         /\ served' = Append(served,
                [results |-> Get(body, "results", << >>),
                 hasNext |-> Get(Get(body, "meta", EmptyDict), "next_cursor", PyNone)
                               = PyStr(ServerToken(page_count))])
    /\ ~RaisesHTTPError(response'.status_code)
    /\ data' = PyDict(response'.json)
    /\ outstanding' = outstanding - 1
    /\ callLog' = Append(callLog, Ev("resp", 200))
    /\ pc' = "call_ret"
    /\ UNCHANGED <<sideVars, crawlVars, mainVars, attempt, rangeIt, request, crawlLog>>

\* 429 guarded by the attempts-remain check: no sleep on the last attempt
Respond429_Capped ==
    /\ pc = "wait"
    /\ response' = Response(429, EmptyDict)
    /\ RaisesHTTPError(response'.status_code)
    /\ outstanding' = outstanding - 1
    /\ IF AttemptsRemain(attempt)
       THEN /\ callLog' = callLog \o << Ev("resp", 429), Ev("sleep", BackoffMs(attempt)) >>
            /\ pc' = "for"
            /\ data' = data
       ELSE /\ callLog' = Append(callLog, Ev("resp", 429))
            /\ data' = PyNone
            /\ pc' = "call_ret"
    /\ UNCHANGED <<sideVars, crawlVars, mainVars, attempt, rangeIt, request, crawlLog, served>>

\* HTTP 429: sleep 2 ** attempt and go round the loop (33-36)
Respond429 ==
    /\ pc = "wait"
    /\ response' = Response(429, EmptyDict)
    /\ RaisesHTTPError(response'.status_code)
    /\ outstanding' = outstanding - 1
    /\ callLog' = callLog \o << Ev("resp", 429), Ev("sleep", BackoffMs(attempt)) >>
    /\ pc' = "for"
    /\ UNCHANGED <<sideVars, crawlVars, mainVars, data, attempt, rangeIt, request,
                   crawlLog, served>>

\* 403 falls through to the generic HTTP-error branch and is retried
Respond403_Retried ==
    /\ pc = "wait"
    /\ response' = Response(403, EmptyDict)
    /\ RaisesHTTPError(response'.status_code)
    /\ outstanding' = outstanding - 1
    /\ IF AttemptsRemain(attempt)
       THEN /\ callLog' = callLog \o << Ev("resp", 403), Ev("sleep", HttpRetryMs) >>
            /\ pc' = "for"
            /\ data' = data
       ELSE /\ callLog' = Append(callLog, Ev("resp", 403))
            /\ data' = PyNone
            /\ pc' = "call_ret"
    /\ UNCHANGED <<sideVars, crawlVars, mainVars, attempt, rangeIt, request, crawlLog, served>>

\* HTTP 403: return None at once (37-39)
Respond403 ==
    /\ pc = "wait"
    /\ response' = Response(403, EmptyDict)
    /\ RaisesHTTPError(response'.status_code)
    /\ outstanding' = outstanding - 1
    /\ callLog' = Append(callLog, Ev("resp", 403))
    /\ data' = PyNone
    /\ pc' = "call_ret"
    /\ UNCHANGED <<sideVars, crawlVars, mainVars, attempt, rangeIt, request, crawlLog, served>>

\* the generic HTTP-error branch without the attempts-remain check
RespondHttpError_AlwaysSleeps ==
    /\ pc = "wait"
    /\ \E status \in Statuses \ {429, 403} :
         /\ RaisesHTTPError(status)
         /\ response' = Response(status, EmptyDict)
    /\ callLog' = callLog \o << Ev("resp", response'.status_code),
                                Ev("sleep", HttpRetryMs) >>
    /\ pc' = "for"
    /\ outstanding' = outstanding - 1
    /\ UNCHANGED <<sideVars, crawlVars, mainVars, data, attempt, rangeIt, request,
                   crawlLog, served>>

\* any other HTTP error: sleep 1 and retry while attempts remain, else
\* return None (40-45)
RespondHttpError ==
    /\ pc = "wait"
    /\ \E status \in Statuses \ {429, 403} :
         /\ RaisesHTTPError(status)
         /\ response' = Response(status, EmptyDict)
    /\ IF AttemptsRemain(attempt)
       THEN /\ callLog' = callLog \o << Ev("resp", response'.status_code),
                                        Ev("sleep", HttpRetryMs) >>
            /\ pc' = "for"
            /\ data' = data
       ELSE /\ callLog' = Append(callLog, Ev("resp", response'.status_code))
            /\ data' = PyNone
            /\ pc' = "call_ret"
    /\ outstanding' = outstanding - 1
    /\ UNCHANGED <<sideVars, crawlVars, mainVars, attempt, rangeIt, request, crawlLog, served>>

\* RequestException that is no HTTPError (connection, timeout): requests.get
\* raises, response is not assigned; sleep 2 and retry while attempts
\* remain, else return None (46-52)
RespondNetError ==
    /\ pc = "wait"
    /\ IF AttemptsRemain(attempt)
       THEN /\ callLog' = callLog \o << Ev("neterr", 0), Ev("sleep", NetRetryMs) >>
            /\ pc' = "for"
            /\ data' = data
       ELSE /\ callLog' = Append(callLog, Ev("neterr", 0))
            /\ data' = PyNone
            /\ pc' = "call_ret"
    /\ outstanding' = outstanding - 1
    /\ UNCHANGED <<sideVars, crawlVars, mainVars, attempt, response, rangeIt, request,
                   crawlLog, served>>

\* -------------------------------------------------- fetch_all_works_data
\* main calls fetch_all_works_data, which sets up its locals (68-80)
MainStart ==
    /\ pc = "main"
    /\ params' = [search |-> SEARCH_TERM,
                  filter |-> "publication_year:" \o YEARS_FILTER,
                  per_page |-> RESULTS_PER_PAGE,
                  select |-> SELECT_FIELDS,
                  mailto |-> EMAIL,
                  cursor |-> PyStr("*")]
    /\ all_works' = << >>
    /\ next_cursor' = PyStr("*")
    /\ page_count' = 0
    /\ total_works_expected' = 0
    /\ pc' = "while"
    /\ UNCHANGED <<sideVars, mainVars, data, attempt, response, rangeIt, outstanding, request,
                   callLog, crawlLog, served>>

\* params['cursor'] = next_cursor is forgotten: every request carries '*'
WhileEnter_StaleCursor ==
    /\ pc = "while"
    /\ Truthy(next_cursor)
    /\ page_count' = page_count + 1
    /\ params' = params
    /\ attempt' = 0
    /\ response' = PyNone
    /\ rangeIt' = 0
    /\ callLog' = << >>
    /\ crawlLog' = Append(crawlLog, Ev("call", page_count + 1))
    /\ pc' = "for"
    /\ UNCHANGED <<sideVars, all_works, next_cursor, total_works_expected, mainVars, data,
                   outstanding, request, served>>

\* the attempt counter is shared by all pages instead of starting at 0
WhileEnter_KeepsBudget ==
    /\ pc = "while"
    /\ Truthy(next_cursor)
    /\ page_count' = page_count + 1
    /\ params' = [params EXCEPT !.cursor = next_cursor]
    /\ attempt' = attempt
    /\ response' = PyNone
    /\ rangeIt' = IF rangeIt >= MAX_RETRIES THEN 0 ELSE rangeIt
    /\ callLog' = << >>
    /\ crawlLog' = Append(crawlLog, Ev("call", page_count + 1))
    /\ pc' = "for"
    /\ UNCHANGED <<sideVars, all_works, next_cursor, total_works_expected, mainVars, data,
                   outstanding, request, served>>

\* while next_cursor: holds; lines 83-89 up to the call of make_api_request,
\* whose attempt parameter takes its default 0
WhileEnter ==
    /\ pc = "while"
    /\ Truthy(next_cursor)
    /\ page_count' = page_count + 1
    /\ params' = [params EXCEPT !.cursor = next_cursor]
    /\ attempt' = 0
    /\ response' = PyNone
    /\ rangeIt' = 0
    /\ callLog' = << >>
    /\ crawlLog' = Append(crawlLog, Ev("call", page_count + 1))
    /\ pc' = "for"
    /\ UNCHANGED <<sideVars, all_works, next_cursor, total_works_expected, mainVars, data,
                   outstanding, request, served>>

\* while next_cursor and page_count < 2: a client-side page limit
WhileExit_PageLimit ==
    /\ pc = "while"
    /\ ~Truthy(next_cursor) \/ page_count >= 2
    /\ raw_works_data' = PyList(all_works)
    /\ pc' = "main_ret"
    /\ UNCHANGED <<sideVars, crawlVars, exitStatus, outputFile, data, attempt, response,
                   rangeIt, outstanding, request, callLog, crawlLog, served>>

\* while next_cursor: fails; return all_works (112)
WhileExit ==
    /\ pc = "while"
    /\ ~Truthy(next_cursor)
    /\ raw_works_data' = PyList(all_works)
    /\ pc' = "main_ret"
    /\ UNCHANGED <<sideVars, crawlVars, exitStatus, outputFile, data, attempt, response, rangeIt,
                   outstanding, request, callLog, crawlLog, served>>

\* a fatal page returns what was accumulated instead of None
FetchFatal_ReturnsPartial ==
    /\ pc = "call_ret"
    /\ data = PyNone
    /\ raw_works_data' = PyList(all_works)
    /\ crawlLog' = Append(crawlLog, Ev("fatal", page_count))
    /\ pc' = "main_ret"
    /\ UNCHANGED <<sideVars, crawlVars, exitStatus, outputFile, data, attempt, response, rangeIt,
                   outstanding, request, callLog, served>>

\* data is None: return None (91-93)
FetchFatal ==
    /\ pc = "call_ret"
    /\ data = PyNone
    /\ raw_works_data' = PyNone
    /\ crawlLog' = Append(crawlLog, Ev("fatal", page_count))
    /\ pc' = "main_ret"
    /\ UNCHANGED <<sideVars, crawlVars, exitStatus, outputFile, data, attempt, response, rangeIt,
                   outstanding, request, callLog, served>>

\* all_works = results instead of all_works.extend(results)
FetchPage_Overwrites ==
    /\ pc = "call_ret"
    /\ data # PyNone
    /\ LET results == Get(data.v, "results", << >>)
           meta == Get(data.v, "meta", EmptyDict)
       IN  /\ total_works_expected' =
                 IF page_count = 1 THEN Get(meta, "count", 0) ELSE total_works_expected
           /\ all_works' = results
           /\ next_cursor' = Get(meta, "next_cursor", PyNone)
    /\ crawlLog' = Append(crawlLog, Ev("extend", page_count))
    /\ response' = PyNone
    /\ callLog' = << >>
    /\ absorbedEarlier' = (absorbedEarlier \/ \E k \in 1..Len(callLog) : callLog[k].ev = "sleep")
    /\ pc' = "polite"
    /\ UNCHANGED <<normVars, mergeVars, params, page_count, mainVars, data, attempt, rangeIt,
                   outstanding, request, served>>

\* next_cursor = meta.get('next_cursor', next_cursor): the old cursor is kept
\* when the page carries none
FetchPage_KeepsCursor ==
    /\ pc = "call_ret"
    /\ data # PyNone
    /\ LET results == Get(data.v, "results", << >>)
           meta == Get(data.v, "meta", EmptyDict)
       IN  /\ total_works_expected' =
                 IF page_count = 1 THEN Get(meta, "count", 0) ELSE total_works_expected
           /\ all_works' = all_works \o results
           /\ next_cursor' = Get(meta, "next_cursor", next_cursor)
    /\ crawlLog' = Append(crawlLog, Ev("extend", page_count))
    /\ response' = PyNone
    /\ callLog' = << >>
    /\ absorbedEarlier' = (absorbedEarlier \/ \E k \in 1..Len(callLog) : callLog[k].ev = "sleep")
    /\ pc' = "polite"
    /\ UNCHANGED <<normVars, mergeVars, params, page_count, mainVars, data, attempt, rangeIt,
                   outstanding, request, served>>

\* a page arrived: take the count once, extend, advance the cursor (96-107);
\* the frame of make_api_request (its response) and the record of its
\* events are released once its value has been taken
FetchPage ==
    /\ pc = "call_ret"
    /\ data # PyNone
    /\ LET results == Get(data.v, "results", << >>)
           meta == Get(data.v, "meta", EmptyDict)
       IN  /\ total_works_expected' =
                 IF page_count = 1 THEN Get(meta, "count", 0) ELSE total_works_expected
           /\ all_works' = all_works \o results
           /\ next_cursor' = Get(meta, "next_cursor", PyNone)
    /\ crawlLog' = Append(crawlLog, Ev("extend", page_count))
    /\ response' = PyNone
    /\ callLog' = << >>
    /\ absorbedEarlier' = (absorbedEarlier \/ \E k \in 1..Len(callLog) : callLog[k].ev = "sleep")
    /\ pc' = "polite"
    /\ UNCHANGED <<normVars, mergeVars, params, page_count, mainVars, data, attempt, rangeIt,
                   outstanding, request, served>>

\* the delay is only taken while a next page exists
PoliteSleep_OnlyBetweenPages ==
    /\ pc = "polite"
    /\ crawlLog' = IF Truthy(next_cursor) THEN Append(crawlLog, Ev("sleep", PoliteMs))
                   ELSE crawlLog
    /\ pc' = "while"
    /\ UNCHANGED <<sideVars, crawlVars, mainVars, data, attempt, response, rangeIt, outstanding,
                   request, callLog, served>>

\* time.sleep(0.5) (110)
PoliteSleep ==
    /\ pc = "polite"
    /\ crawlLog' = Append(crawlLog, Ev("sleep", PoliteMs))
    /\ pc' = "while"
    /\ UNCHANGED <<sideVars, crawlVars, mainVars, data, attempt, response, rangeIt, outstanding,
                   request, callLog, served>>

\* ------------------------------------------------------------------ main
\* raw_works_data is None: sys.exit(1) (158-159)
MainExit ==
    /\ pc = "main_ret"
    /\ raw_works_data = PyNone
    /\ exitStatus' = 1
    /\ pc' = "exited"
    /\ UNCHANGED <<sideVars, crawlVars, raw_works_data, outputFile, data, attempt, response, rangeIt,
                   outstanding, request, callLog, crawlLog, served>>

\* raw_works_data is a non-empty list: structure, sort, write the file and
\* return normally (162-181)
MainSave ==
    /\ pc = "main_ret"
    /\ raw_works_data # PyNone
    /\ Truthy(raw_works_data)
    /\ outputFile' = PyList(ResultTable(raw_works_data.v))
    /\ exitStatus' = 0
    /\ pc' = "exited"
    /\ UNCHANGED <<sideVars, crawlVars, raw_works_data, data, attempt, response, rangeIt,
                   outstanding, request, callLog, crawlLog, served>>

\* raw_works_data is an empty list: print a message and return normally
\* (183-184)
MainNoData ==
    /\ pc = "main_ret"
    /\ raw_works_data # PyNone
    /\ ~Truthy(raw_works_data)
    /\ exitStatus' = 0
    /\ pc' = "exited"
    /\ UNCHANGED <<sideVars, crawlVars, raw_works_data, outputFile, data, attempt, response, rangeIt,
                   outstanding, request, callLog, crawlLog, served>>

Next ==
    \/ MainStart
    \/ WhileEnter
    \/ WhileExit
    \/ ForNext
    \/ ForExhausted
    \/ RequestsGet
    \/ RespondOk
    \/ Respond429
    \/ Respond403
    \/ RespondHttpError
    \/ RespondNetError
    \/ FetchFatal
    \/ FetchPage
    \/ PoliteSleep
    \/ MainExit
    \/ MainSave
    \/ MainNoData

Spec == Init /\ [][Next]_vars

\* ---------------------------------------------------- reading the logs
IsGet(e) == e.ev = "get"
IsSleep(e) == e.ev = "sleep"
IsAnswer(e) == e.ev \in {"resp", "neterr"}

\* number of HTTP requests issued by the current make_api_request
NumGets == Len(SelectSeq(callLog, IsGet))

\* the outcomes of its attempts, in order: status codes, 0 for a network error
Answers == LET a == SelectSeq(callLog, IsAnswer) IN [k \in 1..Len(a) |-> a[k].n]

\* the sleeps it performed, in order, in milliseconds
Sleeps == LET a == SelectSeq(callLog, IsSleep) IN [k \in 1..Len(a) |-> a[k].n]

RECURSIVE SumSeq(_)
SumSeq(q) == IF q = << >> THEN 0 ELSE q[1] + SumSeq(Tail(q))

\* zero-based index of the attempt that event k of callLog belongs to
AttemptOf(k) == Len(SelectSeq(SubSeq(callLog, 1, k), IsGet)) - 1

\* make_api_request has returned to the crawl loop
Returned == pc = "call_ret"
InCall == pc \in {"for", "get", "wait"}

\* 2^0, 2^1, 2^2 seconds
ExpectedBackoff == << 1000, 2000, 4000 >>

\* number of calls of make_api_request made by the crawl
NumCalls == Len(SelectSeq(crawlLog, LAMBDA e : e.ev = "call"))

RECURSIVE Concat(_)
Concat(pages) == IF pages = << >> THEN << >> ELSE pages[1].results \o Concat(Tail(pages))

\* ---------------------------------------------------------------- claims

\* C1: whenever an attempt, at any attempt index, receives HTTP 403,
\* make_api_request returns None at once: the 403 is the last event of the
\* call (no sleep and no request follows it), the value returned is None,
\* and the requests issued number the attempt's index plus one, so a 403 on
\* the first attempt costs exactly one request.
C1_Forbidden403IsFatal ==
    \A k \in 1..Len(callLog) :
        callLog[k] = Ev("resp", 403) =>
            /\ k = Len(callLog)
            /\ ~InCall
            /\ data = PyNone
            /\ NumGets = AttemptOf(k) + 1
            /\ (Len(Answers) = 1 => NumGets = 1)

C1_Witness ==
    /\ Returned
    /\ Len(Answers) = 2
    /\ Answers[2] = 403

\* C2: when the first k < MAX_RETRIES attempts are answered 429 and the
\* next one succeeds, make_api_request returns the payload after exactly
\* k + 1 requests, having slept exactly 2^0, ..., 2^(k-1) seconds in that
\* order; for k = 2 that is 3 requests and 3 seconds of backoff.
C2_BackoffThenSuccess ==
    \A k \in 0..(MAX_RETRIES - 1) :
        (/\ Returned
         /\ Len(Answers) = k + 1
         /\ \A j \in 1..k : Answers[j] = 429
         /\ Answers[k + 1] = 200)
        => /\ data = PyDict(response.json)
           /\ NumGets = k + 1
           /\ Sleeps = SubSeq(ExpectedBackoff, 1, k)
           /\ (k = 2 => NumGets = 3 /\ SumSeq(Sleeps) = 3000)

C2_Witness ==
    /\ Returned
    /\ Answers = << 429, 429, 200 >>

\* C3: when the crawl returns a list, the server's last page n is the first
\* without a next token, make_api_request was called exactly n times (no
\* page n + 1 was asked for), and the list is the concatenation, in page
\* order, of the results of those n pages; with tokens on pages 1 and 2 and
\* none on page 3 that is exactly 3 calls.
C3_CursorCrawlResult ==
    (pc \in {"main_ret", "exited"} /\ raw_works_data # PyNone) =>
        LET n == Len(served)
        IN  /\ n >= 1
            /\ ~served[n].hasNext
            /\ \A k \in 1..(n - 1) : served[k].hasNext
            /\ NumCalls = n
            /\ page_count = n
            /\ raw_works_data = PyList(Concat(served))

C3_Witness ==
    /\ pc = "main_ret"
    /\ raw_works_data # PyNone
    /\ Len(served) = 3
    /\ \A k \in 1..3 : Len(served[k].results) = 1

\* make_api_request has returned None for the page being fetched
FatalSeen == data = PyNone /\ pc \in {"call_ret", "main_ret", "exited"}

\* C4: once the fetch of any page is fatal, no further request is issued,
\* fetch_all_works_data returns None whatever it had accumulated, main
\* exits with status 1 and the output file is never written.
C4_FatalPageStopsCrawl ==
    /\ [](FatalSeen =>
            /\ outstanding = 0
            /\ NumCalls = page_count
            /\ outputFile = PyNone
            /\ (pc # "call_ret" => raw_works_data = PyNone)
            /\ (pc = "exited" => exitStatus = 1))
    /\ [][FatalSeen =>
            /\ callLog' = callLog
            /\ crawlLog' \in {crawlLog, Append(crawlLog, Ev("fatal", page_count))}
            /\ request' = request
            /\ outstanding' = outstanding
            /\ outputFile' = PyNone
            /\ pc' \in {"main_ret", "exited"}]_vars

C4_Witness ==
    /\ pc = "exited"
    /\ exitStatus = 1
    /\ page_count = 2
    /\ Len(all_works) >= 1
    /\ raw_works_data = PyNone
    /\ outputFile = PyNone

\* C5: every terminated run of main either wrote the output file and left
\* with status 0, or wrote no file and left with a non-zero status.
C5_SuccessOrTotalFailure ==
    pc = "exited" =>
        \/ outputFile # PyNone /\ exitStatus = 0
        \/ outputFile = PyNone /\ exitStatus # 0

\* C6: make_api_request returns None exactly when a 403 was received or
\* all MAX_RETRIES attempts failed; otherwise it returns the payload of the
\* first successful attempt, every attempt before which failed with
\* something other than 403.
C6_NoneOnlyWhenFatal ==
    Returned =>
        LET n == Len(Answers)
        IN  /\ n \in 1..MAX_RETRIES
            /\ (data = PyNone) <=>
                   \/ \E j \in 1..n : Answers[j] = 403
                   \/ n = MAX_RETRIES /\ \A j \in 1..n : Answers[j] # 200
            /\ data # PyNone =>
                   /\ Answers[n] = 200
                   /\ \A j \in 1..(n - 1) : Answers[j] \notin {200, 403}
                   /\ response.status_code = 200
                   /\ data = PyDict(response.json)
                   /\ Get(data.v, "results", << >>) = served[Len(served)].results

C6_Witness ==
    /\ Returned
    /\ Answers = << 500, 0, 200 >>
    /\ data # PyNone

\* Every request and every sleep of make_api_request returns: a step of the
\* call that is enabled is eventually taken.
CallStep ==
    \/ ForNext
    \/ ForExhausted
    \/ RequestsGet
    \/ RespondOk
    \/ Respond429
    \/ Respond403
    \/ RespondHttpError
    \/ RespondNetError

FairSpec == Spec /\ WF_vars(CallStep)

\* C7: one call of make_api_request issues at most MAX_RETRIES requests and
\* always returns.
C7_BoundedAttempts ==
    /\ [](NumGets <= MAX_RETRIES)
    /\ (InCall ~> Returned)

C7_Witness ==
    /\ Returned
    /\ NumGets = MAX_RETRIES
    /\ data = PyNone
    /\ Answers[MAX_RETRIES] = 0

\* C8 as stated: every 429 is followed by a sleep of 2^attempt seconds and
\* then by another request.
C8_Every429IsRetried ==
    \A k \in 1..Len(callLog) :
        callLog[k] = Ev("resp", 429) =>
            /\ Len(callLog) >= k + 1
            /\ callLog[k + 1] = Ev("sleep", ExpectedBackoff[AttemptOf(k) + 1])
            /\ (~InCall => Len(callLog) >= k + 2 /\ callLog[k + 2].ev = "get")

\* C8, amended: every 429 is followed by a sleep of 2^attempt seconds,
\* attempt being the zero-based index of that attempt among all attempts of
\* the call; while attempts remain the next event is the request of attempt
\* + 1, and after a 429 on the last attempt the function returns None
\* without another request.
C8_BackoffOn429 ==
    \A k \in 1..Len(callLog) :
        callLog[k] = Ev("resp", 429) =>
            LET a == AttemptOf(k)
            IN  /\ callLog[k - 1] = Ev("get", a)
                /\ Len(callLog) >= k + 1
                /\ callLog[k + 1] = Ev("sleep", ExpectedBackoff[a + 1])
                /\ a < MAX_RETRIES - 1 =>
                       IF Len(callLog) = k + 1
                       THEN pc \in {"for", "get"}
                       ELSE callLog[k + 2] = Ev("get", a + 1)
                /\ a = MAX_RETRIES - 1 =>
                       /\ Len(callLog) = k + 1
                       /\ pc # "for" => ~InCall /\ data = PyNone

C8_Witness ==
    /\ Returned
    /\ Answers = << 500, 0, 429 >>
    /\ Sleeps = << 1000, 2000, 4000 >>
    /\ data = PyNone

\* C9: an HTTP error other than 429 and 403 with attempts remaining is
\* followed by a 1-second sleep and the next request, a network error with
\* attempts remaining by a 2-second sleep and the next request; on the last
\* attempt either is followed by nothing: the function returns None.
C9_FixedRetryDelays ==
    \A k \in 1..Len(callLog) :
        (IsAnswer(callLog[k]) /\ callLog[k].n \notin {200, 429, 403}) =>
            LET a == AttemptOf(k)
                delay == IF callLog[k].ev = "neterr" THEN 2000 ELSE 1000
            IN  IF a < MAX_RETRIES - 1
                THEN /\ Len(callLog) >= k + 1
                     /\ callLog[k + 1] = Ev("sleep", delay)
                     /\ IF Len(callLog) = k + 1
                        THEN pc \in {"for", "get"}
                        ELSE callLog[k + 2] = Ev("get", a + 1)
                ELSE /\ Len(callLog) = k
                     /\ ~InCall
                     /\ data = PyNone

C9_Witness ==
    /\ Returned
    /\ callLog = << Ev("get", 0), Ev("neterr", 0), Ev("sleep", 2000),
                    Ev("get", 1), Ev("resp", 500), Ev("sleep", 1000),
                    Ev("get", 2), Ev("resp", 500) >>

\* C10: in the crawl every page whose records were appended is followed by
\* one 0.5 s sleep before anything else, so a 0.5 s sleep lies between any
\* two page requests; a sleep only ever follows an append, nothing follows
\* a fatal fetch; and at most one request is outstanding, none when the
\* next one is issued.
C10_PoliteDelay ==
    /\ outstanding \in {0, 1}
    /\ pc = "get" => outstanding = 0
    /\ \A k \in 1..Len(crawlLog) :
         /\ crawlLog[k].ev = "extend" =>
                IF k = Len(crawlLog) THEN pc = "polite"
                ELSE crawlLog[k + 1] = Ev("sleep", 500)
         /\ crawlLog[k].ev = "sleep" =>
                k > 1 /\ crawlLog[k - 1].ev = "extend"
         /\ crawlLog[k].ev = "fatal" => k = Len(crawlLog)
         /\ \A j \in 1..(k - 1) :
                (crawlLog[j].ev = "call" /\ crawlLog[k].ev = "call") =>
                    \E m \in (j + 1)..(k - 1) : crawlLog[m] = Ev("sleep", 500)

C10_Witness ==
    /\ pc = "main_ret"
    /\ crawlLog = << Ev("call", 1), Ev("extend", 1), Ev("sleep", 500),
                     Ev("call", 2), Ev("extend", 2), Ev("sleep", 500),
                     Ev("call", 3), Ev("fatal", 3) >>

\* the page held in data is a 2xx body without the key k
PageLacks(k) == data # PyNone /\ k \notin DOMAIN data.v

\* the crawl loop has taken the page held in data (lines 96-107 are done)
PageTaken == pc \in {"polite", "while", "for", "get", "wait", "main_ret", "exited"}

\* C11 as stated: after a 2xx page that lacks 'meta' or 'results' no
\* further request is issued, and the crawl returns the list accumulated up
\* to and including that page.
C11_MalformedEndsCrawl ==
    (PageLacks("meta") \/ PageLacks("results")) =>
        /\ ~InCall
        /\ pc \in {"main_ret", "exited"} => raw_works_data = PyList(Concat(served))

\* C11, amended: a 2xx page that lacks 'meta' ends the crawl: its results,
\* if any, are appended, no further request is issued and the crawl returns
\* the list accumulated up to and including that page.  A page that lacks
\* only 'results' appends nothing, and a further request follows it exactly
\* when its meta carries a non-empty next_cursor.
C11_MissingMetaEndsCrawl ==
    /\ PageLacks("meta") =>
           /\ ~InCall
           /\ PageTaken =>
                  /\ next_cursor = PyNone
                  /\ all_works = Concat(served)
                  /\ Len(served) = page_count
           /\ pc \in {"main_ret", "exited"} => raw_works_data = PyList(all_works)
    /\ (PageLacks("results") /\ PageTaken) =>
           /\ all_works = Concat(SubSeq(served, 1, Len(served) - 1))
           /\ InCall => Truthy(Get(Get(data.v, "meta", EmptyDict), "next_cursor", PyNone))
           /\ pc \in {"main_ret", "exited"} =>
                  /\ ~Truthy(Get(Get(data.v, "meta", EmptyDict), "next_cursor", PyNone))
                  /\ raw_works_data = PyList(all_works)

C11_Witness ==
    /\ pc = "main_ret"
    /\ page_count = 2
    /\ PageLacks("meta")
    /\ ~PageLacks("results")
    /\ Len(data.v.results) = 1
    /\ Len(raw_works_data.v) = 2

\* ------------------------------- process_and_structure_data on its own
Id99 == <<"C","9","9">>
Id12345 == <<"C","1","2","3","4","5">>

\* The shapes of one raw work: 'concepts', 'authorships', 'cited_by_count'
\* and 'publication_date' each absent or present, the sequences empty or
\* not, the nested 'id', 'display_name', 'author' and 'institutions' each
\* absent or present.
ConceptsShapes ==
    { EmptyDict,
      "concepts" :> << >>,
      "concepts" :> << [id |-> Url, display_name |-> "Biology"],
                       [id |-> Id99, display_name |-> "Physics"] >>,
      "concepts" :> << [display_name |-> "Biology"] >>,
      "concepts" :> << [id |-> Id99] >> }

AuthorshipsShapes ==
    { EmptyDict,
      "authorships" :> << >>,
      "authorships" :> << [author |-> [display_name |-> "Kim"],
                           institutions |-> << [display_name |-> "BU"],
                                               [display_name |-> "MIT"] >>],
                          [author |-> [display_name |-> "Lee"],
                           institutions |-> << [display_name |-> "MIT"] >>] >>,
      "authorships" :> << [institutions |-> << >>] >>,
      "authorships" :> << [author |-> EmptyDict,
                           institutions |-> << EmptyDict >>] >> }

WorkShapes ==
    { ("title" :> "T") @@ c @@ a @@ n @@ d :
        c \in ConceptsShapes, a \in AuthorshipsShapes,
        n \in {EmptyDict, "cited_by_count" :> 5},
        d \in {EmptyDict, "publication_date" :> "2021-03-01"} }

NormInputs == UNION { [1..n -> WorkShapes] : n \in 0..MaxWorks }

NormInit ==
    /\ pc = "norm"
    /\ raw_works_arg \in NormInputs
    /\ final_data = PyNone
    /\ absorbedEarlier = FALSE
    /\ csv = << >>
    /\ year = 1
    /\ all_counts = << >>
    /\ final_df = PyNone
    /\ topic_yearly_counts = PyNone
    /\ params = EmptyDict
    /\ all_works = << >>
    /\ next_cursor = PyNone
    /\ page_count = 0
    /\ total_works_expected = 0
    /\ data = PyNone
    /\ attempt = 0
    /\ response = PyNone
    /\ rangeIt = 0
    /\ outstanding = 0
    /\ request = EmptyDict
    /\ raw_works_data = PyNone
    /\ exitStatus = Running
    /\ outputFile = PyNone
    /\ callLog = << >>
    /\ crawlLog = << >>
    /\ served = << >>

\* final_data = process_and_structure_data(raw_works) (114-146)
Normalize ==
    /\ pc = "norm"
    /\ final_data' = PyList(process_and_structure_data(raw_works_arg))
    /\ pc' = "norm_done"
    /\ UNCHANGED <<crawlVars, mainVars, mergeVars, raw_works_arg, absorbedEarlier, data, attempt,
                   response, rangeIt, outstanding, request, callLog, crawlLog, served>>

NormNext == Normalize

NormSpec == NormInit /\ [][NormNext]_vars

RowFields == {"Concept_ID", "Concept_Name", "Work_Title", "Primary_Author",
              "Affiliation_Institution", "Citation_Count", "Publication_Date"}

\* C12: process_and_structure_data yields one row per record, in input
\* order, with all seven fields; empty or absent 'concepts' give Concept_ID
\* = Concept_Name = 'N/A', empty or absent 'authorships' give
\* Primary_Author = Affiliation_Institution = 'N/A', a missing
\* cited_by_count gives 0, and otherwise the first element of each sequence
\* is the one used.
C12_NormalizerDefaults ==
    final_data # PyNone =>
        /\ Len(final_data.v) = Len(raw_works_arg)
        /\ \A k \in 1..Len(raw_works_arg) :
             LET w == raw_works_arg[k]
                 r == final_data.v[k]
                 concepts == Get(w, "concepts", << >>)
                 authorships == Get(w, "authorships", << >>)
             IN  /\ DOMAIN r = RowFields
                 /\ r.Work_Title = w.title
                 /\ concepts = << >> =>
                        r.Concept_ID = NA /\ r.Concept_Name = "N/A"
                 /\ concepts # << >> =>
                        r.Concept_Name = Get(concepts[1], "display_name", "N/A")
                 /\ authorships = << >> =>
                        r.Primary_Author = "N/A" /\ r.Affiliation_Institution = "N/A"
                 /\ authorships # << >> =>
                        r.Primary_Author =
                            Get(Get(authorships[1], "author", EmptyDict), "display_name", "N/A")
                 /\ r.Citation_Count = Get(w, "cited_by_count", 0)

HasSlash(id) == \E j \in 1..Len(id) : id[j] = "/"

\* C13: a first concept id https://openalex.org/C12345 is normalized to
\* C12345; stripping an id that holds no '/' leaves it unchanged; and the
\* default id 'N/A' of a record without concepts stays 'N/A'.
C13_StripIdempotent ==
    final_data # PyNone =>
        \A k \in 1..Len(raw_works_arg) :
            LET concepts == Get(raw_works_arg[k], "concepts", << >>)
                cid == final_data.v[k].Concept_ID
            IN  /\ (concepts # << >> /\ Get(concepts[1], "id", NA) = Url) => cid = Id12345
                /\ ~HasSlash(cid) => StripId(cid) = cid
                /\ concepts = << >> => cid = NA /\ StripId(cid) = NA

\* C14: the first request carries cursor '*'; the cursor of every request
\* for page k + 1 is the next_cursor of page k's meta; search, filter,
\* per-page, select and mailto are the same in every request; and
\* total_works_expected is set from the first page's meta.count only.
C14_CursorChaining ==
    /\ [](pc = "wait" =>
            /\ DOMAIN request = {"search", "filter", "per_page", "select", "mailto", "cursor"}
            /\ request.cursor =
                   IF page_count = 1 THEN PyStr("*")
                   ELSE Get(Get(data.v, "meta", EmptyDict), "next_cursor", PyNone)
            /\ page_count > 1 => request.cursor = PyStr(ServerToken(page_count - 1))
            /\ request.search = SEARCH_TERM
            /\ request.filter = "publication_year:2020-2025"
            /\ request.per_page = RESULTS_PER_PAGE
            /\ request.select = SELECT_FIELDS
            /\ request.mailto = EMAIL)
    /\ [][total_works_expected' =
            IF pc = "call_ret" /\ data # PyNone /\ page_count = 1
            THEN Get(Get(data.v, "meta", EmptyDict), "count", 0)
            ELSE IF pc = "main" THEN 0 ELSE total_works_expected]_vars

C14_Witness ==
    /\ pc = "wait"
    /\ page_count = 3
    /\ request.cursor = PyStr("tok2")
    /\ total_works_expected = 7
    /\ "count" \notin DOMAIN data.v.meta

\* C15: every call of make_api_request starts at attempt 0 with the whole
\* budget: within a call the attempt index and the budget used count the
\* requests of that call only, the 429 backoff follows that index, and a
\* call gives up without a 403 only after MAX_RETRIES requests of its own,
\* whatever earlier pages absorbed.
C15_BudgetPerPage ==
    /\ pc = "for" => rangeIt = NumGets
    /\ pc = "get" => attempt = NumGets /\ rangeIt = attempt + 1
    /\ pc = "wait" => attempt = NumGets - 1
    /\ \A k \in 1..Len(callLog) :
         /\ callLog[k].ev = "get" => callLog[k].n = AttemptOf(k)
         /\ callLog[k] = Ev("resp", 429) =>
                callLog[k + 1] = Ev("sleep", ExpectedBackoff[AttemptOf(k) + 1])
    /\ (Returned /\ data = PyNone /\ \A j \in 1..Len(Answers) : Answers[j] # 403)
           => NumGets = MAX_RETRIES

C15_Witness ==
    /\ Returned
    /\ page_count = 2
    /\ absorbedEarlier
    /\ Answers = << 500, 429, 200 >>
    /\ Sleeps = << 1000, 2000 >>

\* Every step of the crawl loop that is enabled is eventually taken.
CrawlStep ==
    \/ CallStep
    \/ WhileEnter
    \/ WhileExit
    \/ FetchFatal
    \/ FetchPage
    \/ PoliteSleep

CrawlFairSpec == Spec /\ WF_vars(CrawlStep)

\* C16: the crawl returns only after a page without a next token or after
\* a fatal fetch, and does return then; after a page with a token, whatever
\* the page count, the loop cannot exit and the next page is requested; the
\* accumulator never shrinks.
C16_ServerBoundedLoop ==
    /\ [](pc \in {"main_ret", "exited"} =>
            \/ raw_works_data = PyNone /\ crawlLog[Len(crawlLog)].ev = "fatal"
            \/ raw_works_data # PyNone /\ served # << >> /\ ~served[Len(served)].hasNext)
    /\ []((pc = "while" /\ served # << >> /\ served[Len(served)].hasNext)
            => Truthy(next_cursor))
    /\ [][(pc = "while" /\ Truthy(next_cursor))
             => (pc' = "for" /\ page_count' = page_count + 1 /\ all_works' = all_works)]_vars
    /\ (pc = "while" /\ Truthy(next_cursor)) ~> (pc = "wait")
    /\ ((pc = "while" /\ ~Truthy(next_cursor)) \/ FatalSeen)
           ~> (pc \in {"main_ret", "exited"})
    /\ [][pc # "main" => Len(all_works') >= Len(all_works)]_vars

C16_Witness ==
    /\ pc = "wait"
    /\ page_count = MaxPages
    /\ Len(all_works) = MaxPages - 1

\* ---------------------------------------------------------------------
\* eda3.py: the year-partitioned merge
\* ---------------------------------------------------------------------

\* years = [2021, 2022, 2023, 2024, 2025, 'preprint'], as f"{year}" formats them
years == << "2021", "2022", "2023", "2024", "2025", "preprint" >>

name_column == "name"

\* f'{year}_Count'
CountColumn(y) == y \o "_Count"

\* What pd.read_csv(file_path, sep=None, engine='python') can meet
NotFound == [kind |-> "FileNotFoundError"]
Unreadable == [kind |-> "Exception"]
Table(columns, rows) == [kind |-> "DataFrame", columns |-> columns, rows |-> rows]

TableA == Table({"name", "count"}, << [name |-> "a", count |-> 1] >>)
TableAB == Table({"name", "count"},
                 << [name |-> "b", count |-> 2], [name |-> "a", count |-> 3] >>)
TableNoCount == Table({"name", "total"}, << [name |-> "a", total |-> 1] >>)

FileKinds == {NotFound, Unreadable, TableNoCount, TableA, TableAB}

\* if name_column not in df.columns or 'count' not in df.columns (23)
HasColumns(df) == name_column \in df.columns /\ "count" \in df.columns

Readable(f) == f.kind = "DataFrame" /\ HasColumns(f)

\* Cells of a frame: int64, float64 and the missing value
PyInt(n) == [t |-> "int", v |-> n]
PyFloat(n) == [t |-> "float", v |-> n]
NaN == [t |-> "NaN"]

Range(q) == {q[i] : i \in 1..Len(q)}

\* A frame keyed by name_column: its other columns, its keys and its cells
Frame(columns, index, at) == [columns |-> columns, index |-> index, at |-> at]

\* df.rename(columns={'count': f'{year}_Count'})[[name_column, f'{year}_Count']] (28-31)
CountsDf(df, y) ==
    Frame(<< CountColumn(y) >>,
          {df.rows[i].name : i \in 1..Len(df.rows)},
          [n \in {df.rows[i].name : i \in 1..Len(df.rows)} |->
              [c \in {CountColumn(y)} |->
                  PyInt(df.rows[CHOOSE i \in 1..Len(df.rows) : df.rows[i].name = n].count)]])

\* an int64 column that receives a missing value becomes float64
Upcast(x) == IF x.t = "int" THEN PyFloat(x.v) ELSE x

\* left.merge(right, on=name_column, how='outer') (46)
Merge(left, right) ==
    LET index == left.index \union right.index
        Side(f, n, c) ==
            IF n \notin f.index THEN NaN
            ELSE IF index # f.index THEN Upcast(f.at[n][c])
            ELSE f.at[n][c]
    IN  Frame(left.columns \o right.columns, index,
              [n \in index |->
                  [c \in Range(left.columns) \union Range(right.columns) |->
                      IF c \in Range(left.columns) THEN Side(left, n, c)
                      ELSE Side(right, n, c)]])

\* for i in range(1, len(all_counts)): final_df = final_df.merge(...) (43-46)
RECURSIVE MergeAll(_, _)
MergeAll(frames, k) ==
    IF k = 1 THEN frames[1] ELSE Merge(MergeAll(frames, k - 1), frames[k])

\* final_df.fillna(0) (48)
Fillna0(f) ==
    Frame(f.columns, f.index,
          [n \in f.index |->
              [c \in Range(f.columns) |->
                  IF f.at[n][c] = NaN THEN PyFloat(0) ELSE f.at[n][c]]])

\* count_columns = [f'{year}_Count' for year in years] (50)
count_columns == [i \in 1..Len(years) |-> CountColumn(years[i])]

\* final_df[count_columns] raises KeyError unless every label is a column (51)
KeyError(f, labels) == ~(Range(labels) \subseteq Range(f.columns))

\* final_df[count_columns] = final_df[count_columns].astype(int) (51)
AsTypeInt(f, labels) ==
    Frame(f.columns, f.index,
          [n \in f.index |->
              [c \in Range(f.columns) |->
                  IF c \in Range(labels) THEN PyInt(f.at[n][c].v) ELSE f.at[n][c]]])

\* sort_values(by='Primary Topic Id'): the order of the topic names
NameOrder == << "a", "b" >>
SortedNames(f) == SelectSeq(NameOrder, LAMBDA n : n \in f.index)

\* final_df.rename(...).sort_values(...).to_csv(OUTPUT_FILE, index=False) (53-57)
ToCsv(f) ==
    [header |-> << "Primary Topic Id" >> \o f.columns,
     rows |-> [i \in 1..Len(SortedNames(f)) |->
                  [name |-> SortedNames(f)[i], counts |-> f.at[SortedNames(f)[i]]]]]

\* The script starts with the files of the data directory in any condition
MergeInit ==
    /\ pc = "year_loop"
    /\ csv \in [1..Len(years) -> FileKinds]
    /\ year = 1
    /\ all_counts = << >>
    /\ final_df = PyNone
    /\ topic_yearly_counts = PyNone
    /\ raw_works_arg = << >>
    /\ final_data = PyNone
    /\ absorbedEarlier = FALSE
    /\ params = EmptyDict
    /\ all_works = << >>
    /\ next_cursor = PyNone
    /\ page_count = 0
    /\ total_works_expected = 0
    /\ data = PyNone
    /\ attempt = 0
    /\ response = PyNone
    /\ rangeIt = 0
    /\ outstanding = 0
    /\ request = EmptyDict
    /\ raw_works_data = PyNone
    /\ exitStatus = Running
    /\ outputFile = PyNone
    /\ callLog = << >>
    /\ crawlLog = << >>
    /\ served = << >>

eda2Vars == <<crawlVars, mainVars, normVars, absorbedEarlier, data, attempt, response,
              rangeIt, outstanding, request, callLog, crawlLog, served>>

\* one pass of the loop body without exception or continue (20-34)
ReadYear ==
    /\ pc = "year_loop"
    /\ year <= Len(years)
    /\ csv[year].kind = "DataFrame"
    /\ HasColumns(csv[year])
    /\ all_counts' = Append(all_counts, CountsDf(csv[year], years[year]))
    /\ year' = year + 1
    /\ UNCHANGED <<pc, csv, final_df, topic_yearly_counts, eda2Vars>>

\* the required columns are missing: continue (23-25)
SkipNoColumns ==
    /\ pc = "year_loop"
    /\ year <= Len(years)
    /\ csv[year].kind = "DataFrame"
    /\ ~HasColumns(csv[year])
    /\ year' = year + 1
    /\ UNCHANGED <<pc, csv, all_counts, final_df, topic_yearly_counts, eda2Vars>>

\* except FileNotFoundError (36-37)
SkipNotFound ==
    /\ pc = "year_loop"
    /\ year <= Len(years)
    /\ csv[year].kind = "FileNotFoundError"
    /\ year' = year + 1
    /\ UNCHANGED <<pc, csv, all_counts, final_df, topic_yearly_counts, eda2Vars>>

\* except Exception (38-39)
SkipUnexpected ==
    /\ pc = "year_loop"
    /\ year <= Len(years)
    /\ csv[year].kind = "Exception"
    /\ year' = year + 1
    /\ UNCHANGED <<pc, csv, all_counts, final_df, topic_yearly_counts, eda2Vars>>

\* if all_counts: every count column exists; merge, convert, write (42-57)
MergeWrite ==
    /\ pc = "year_loop"
    /\ year > Len(years)
    /\ all_counts # << >>
    /\ ~KeyError(Fillna0(MergeAll(all_counts, Len(all_counts))), count_columns)
    /\ final_df' = AsTypeInt(Fillna0(MergeAll(all_counts, Len(all_counts))), count_columns)
    /\ topic_yearly_counts' = ToCsv(final_df')
    /\ exitStatus' = 0
    /\ pc' = "merge_done"
    /\ UNCHANGED <<csv, year, all_counts, crawlVars, raw_works_data, outputFile, normVars,
                   absorbedEarlier, data, attempt, response, rangeIt, outstanding,
                   request, callLog, crawlLog, served>>

\* if all_counts: a configured year was skipped, so final_df[count_columns]
\* raises KeyError, which nothing catches: no file is written (42-51)
MergeKeyError ==
    /\ pc = "year_loop"
    /\ year > Len(years)
    /\ all_counts # << >>
    /\ KeyError(Fillna0(MergeAll(all_counts, Len(all_counts))), count_columns)
    /\ final_df' = Fillna0(MergeAll(all_counts, Len(all_counts)))
    /\ exitStatus' = 1
    /\ pc' = "merge_done"
    /\ UNCHANGED <<csv, year, all_counts, topic_yearly_counts, crawlVars, raw_works_data,
                   outputFile, normVars, absorbedEarlier, data, attempt, response,
                   rangeIt, outstanding, request, callLog, crawlLog, served>>

\* else: pass (59-60)
MergeNothing ==
    /\ pc = "year_loop"
    /\ year > Len(years)
    /\ all_counts = << >>
    /\ exitStatus' = 0
    /\ pc' = "merge_done"
    /\ UNCHANGED <<csv, year, all_counts, final_df, topic_yearly_counts, crawlVars,
                   raw_works_data, outputFile, normVars, absorbedEarlier, data, attempt,
                   response, rangeIt, outstanding, request, callLog, crawlLog, served>>

MergeNext ==
    \/ ReadYear
    \/ SkipNoColumns
    \/ SkipNotFound
    \/ SkipUnexpected
    \/ MergeWrite
    \/ MergeKeyError
    \/ MergeNothing

MergeSpec == MergeInit /\ [][MergeNext]_vars

\* The frames of the readable files among the first k years, in order
RECURSIVE ReadUpTo(_)
ReadUpTo(k) ==
    IF k = 0 THEN << >>
    ELSE IF Readable(csv[k]) THEN Append(ReadUpTo(k - 1), CountsDf(csv[k], years[k]))
    ELSE ReadUpTo(k - 1)

\* The count of topic n in the file of year i, 0 where the file has none
CountIn(i, n) ==
    IF Readable(csv[i]) /\ \E j \in 1..Len(csv[i].rows) : csv[i].rows[j].name = n
    THEN (CHOOSE r \in Range(csv[i].rows) : r.name = n).count
    ELSE 0

\* C17: a year whose file is missing, unreadable or lacks the columns is
\* skipped and the loop goes on with the next year; and whenever at least
\* one year was read, the script ends without error and has written the
\* output table, its count columns integers, 0 where a count is missing.
C17_SkipAndMerge ==
    /\ pc = "year_loop" => all_counts = ReadUpTo(year - 1)
    /\ (pc = "merge_done" /\ \E i \in 1..Len(years) : Readable(csv[i])) =>
          /\ exitStatus = 0
          /\ topic_yearly_counts # PyNone
          /\ \A r \in 1..Len(topic_yearly_counts.rows) :
               \A i \in 1..Len(years) :
                  Readable(csv[i]) =>
                     topic_yearly_counts.rows[r].counts[CountColumn(years[i])]
                         = PyInt(CountIn(i, topic_yearly_counts.rows[r].name))

\* The part of C17 that the code keeps: skipped years are skipped, and with
\* every year readable the table is written with integer counts, 0 filled.
C17_AllYearsReadable ==
    /\ pc = "year_loop" => all_counts = ReadUpTo(year - 1)
    /\ (pc = "merge_done" /\ \A i \in 1..Len(years) : Readable(csv[i])) =>
          /\ exitStatus = 0
          /\ topic_yearly_counts # PyNone
          /\ topic_yearly_counts.header = << "Primary Topic Id" >> \o count_columns
          /\ \A r \in 1..Len(topic_yearly_counts.rows) :
               \A i \in 1..Len(years) :
                  topic_yearly_counts.rows[r].counts[CountColumn(years[i])]
                      = PyInt(CountIn(i, topic_yearly_counts.rows[r].name))

\* One year is missing and the others were read: the script dies
C17_SkippedYearCrashes ==
    /\ pc = "merge_done"
    /\ csv[1] = NotFound
    /\ \A i \in 2..Len(years) : Readable(csv[i])
    /\ exitStatus = 1
    /\ topic_yearly_counts = PyNone

====
